---- MODULE Spec2Model ----
(***************************************************************************)
(* Model of the wedding site's name-matching search (utils/fuzzySearch.js):*)
(* normalizeString, levenshteinDistance, calculateSimilarity, matchGuest   *)
(* and fuzzySearchGuests; of the Google Sheets loader                      *)
(* (utils/googleSheets.js): fetchTableAssignments, parseSheetData,         *)
(* normalizeHeaderName and normalizeGuestData; of the TableLookup         *)
(* component: the loading of the guest list and the search form; and of    *)
(* the shared scroll lock (utils/scrollLock.js) with its two users, the    *)
(* Header menu and the gallery Lightbox.                                   *)
(*                                                                         *)
(* A JavaScript string is a sequence of one-character TLA+ strings.  A     *)
(* JavaScript value is a record [t, s]: t is the typeof tag and s the      *)
(* characters of a string value.  A score is a rational in [0,1] held as   *)
(* an integer number of 1/Scale units.                                     *)
(***************************************************************************)
EXTENDS Integers, Sequences, FiniteSets, TLC

VARIABLES
    str1, str2,      \* arguments of the distance / similarity call
    levPc,           \* "ready", "distance" or "similarity"
    distance,        \* value returned by levenshteinDistance(str1, str2)
    similarity,      \* value returned by calculateSimilarity(str1, str2)
    guests,          \* the guest collection handed to the search
    searchPc,        \* "idle", "searched", "normalized", "renormalized"
                     \* or "matched"
    query,           \* query argument of the last fuzzySearchGuests call
    options,         \* options argument of the last fuzzySearchGuests call
    outcome,         \* "none", "returned" or "threw"
    results,         \* the sequence returned by fuzzySearchGuests
    evaluated,       \* number of matchGuest calls made by the last search
    normInput,       \* argument of the last normalizeString call
    normOutput,      \* value returned by the last normalizeString call
    matchResult,     \* value returned by the last matchGuest call
    apiKey,          \* VITE_GOOGLE_SHEETS_API_KEY of the environment
    sheetId,         \* spreadsheet id, from the prop or the environment
    sheetRange,      \* sheetRange prop of the lookup page
    loadingState,    \* "idle", "loading", "success" or "error"
    errorMessage,    \* message of the error view, or NoMessage
    fetched,         \* what the last request to the Sheets API did
    searchQuery,     \* text of the lookup page's search input
    searchResults,   \* results of the last submitted search, or null
    hasSearched,     \* whether the results of a search are on show
    selectedResult,  \* the result picked from several matches, or null
    lockCount,       \* lockCount of the scroll lock
    locks,           \* the set of lock ids held
    noScroll,        \* whether the body carries the class no-scroll
    lastCall,        \* the last acquireLock / releaseLock call made
    headerMounted,   \* whether the Header's menu effect has run
    isMenuOpen,      \* isMenuOpen of the Header
    isLightboxOpen   \* whether the gallery shows its Lightbox

levVars == <<str1, str2, levPc, distance, similarity>>
searchVars == <<guests, searchPc, query, options, outcome, results, evaluated,
                normInput, normOutput, matchResult>>
loadVars == <<apiKey, sheetId, sheetRange, loadingState, errorMessage,
              fetched>>
lookupVars == <<searchQuery, searchResults, hasSearched, selectedResult>>
lockVars == <<lockCount, locks, noScroll, lastCall, headerMounted,
              isMenuOpen, isLightboxOpen>>
pageVars == <<lookupVars, lockVars>>
vars == <<str1, str2, levPc, distance, similarity, guests, searchPc, query,
          options, outcome, results, evaluated, normInput, normOutput,
          matchResult, apiKey, sheetId, sheetRange, loadingState, errorMessage,
          fetched, searchQuery, searchResults, hasSearched, selectedResult,
          lockCount, locks, noScroll, lastCall, headerMounted, isMenuOpen,
          isLightboxOpen>>

----------------------------------------------------------------------------
(* Bounds *)

MaxLen == 3          \* longest string of the exhaustive distance inputs
MaxQueryLen == 2     \* longest query of the exhaustive search inputs
MaxGuests == 2       \* largest guest collection

----------------------------------------------------------------------------
(* Arithmetic helpers *)

Min2(x, y) == IF x <= y THEN x ELSE y

Max2(x, y) == IF x >= y THEN x ELSE y

Min3(x, y, z) == Min2(x, Min2(y, z))

(* Sequences over S of length at most n *)
SeqUpTo(S, n) == UNION {[1..k -> S] : k \in 0..n}

----------------------------------------------------------------------------
(* JavaScript values *)

Undefined == [t |-> "undefined", s |-> <<>>]

Null == [t |-> "null", s |-> <<>>]

(* a non-zero number (5): truthy and not a string *)
Num == [t |-> "number", s |-> <<"5">>]

Str(s) == [t |-> "string", s |-> s]

(* a value not returned yet, and the null distance of a match *)
NoValue == -1

(* JavaScript truthiness: undefined, null and "" are falsy *)
Truthy(v) ==
    \/ v.t = "number"
    \/ v.t = "string" /\ v.s # <<>>

----------------------------------------------------------------------------
(* String.prototype helpers *)

WhiteSpace == {" ", "\t"}

Punctuation == {".", ",", "-", "'"}

CombiningMarks == {"combining_acute"}

ToLowerCase(s) ==
    [k \in 1..Len(s) |->
        CASE s[k] = "A" -> "a"
          [] s[k] = "B" -> "b"
          [] s[k] = "E_acute" -> "e_acute"
          [] s[k] = "F" -> "f"
          [] s[k] = "L" -> "l"
          [] s[k] = "N" -> "n"
          [] s[k] = "T" -> "t"
          [] OTHER -> s[k]]

RECURSIVE TrimStart(_)
TrimStart(s) ==
    IF s # <<>> /\ Head(s) \in WhiteSpace THEN TrimStart(Tail(s)) ELSE s

RECURSIVE TrimEnd(_)
TrimEnd(s) ==
    IF s # <<>> /\ s[Len(s)] \in WhiteSpace
    THEN TrimEnd(SubSeq(s, 1, Len(s) - 1))
    ELSE s

Trim(s) == TrimEnd(TrimStart(s))

(* replace(/\s+/g, ' '): every maximal run of whitespace becomes one space *)
RECURSIVE CollapseSpaces(_)
CollapseSpaces(s) ==
    IF s = <<>> THEN <<>>
    ELSE IF Head(s) \in WhiteSpace
         THEN <<" ">> \o CollapseSpaces(TrimStart(s))
         ELSE <<Head(s)>> \o CollapseSpaces(Tail(s))

RemoveAll(s, chars) == SelectSeq(s, LAMBDA c : c \notin chars)

(* normalize('NFD'): a precomposed letter becomes base letter + mark *)
RECURSIVE NFD(_)
NFD(s) ==
    IF s = <<>> THEN <<>>
    ELSE IF Head(s) = "e_acute"
         THEN <<"e", "combining_acute">> \o NFD(Tail(s))
         ELSE <<Head(s)>> \o NFD(Tail(s))

(* s starts with q *)
StartsWith(s, q) == Len(q) <= Len(s) /\ SubSeq(s, 1, Len(q)) = q

(* s contains q as a substring *)
Includes(s, q) ==
    \E k \in 0..(Len(s) - Len(q)) : SubSeq(s, k + 1, k + Len(q)) = q

----------------------------------------------------------------------------
(* normalizeString: the returned value, or Threw when the call raises *)

Threw == [t |-> "threw", s |-> <<>>]

(* normalizeString with only the !str test: a number has no toLowerCase *)
normalizeStringNoTypeTest(v) ==
    IF ~Truthy(v)
    THEN Str(<<>>)
    ELSE IF v.t # "string"
    THEN Threw
    ELSE Str(RemoveAll(NFD(RemoveAll(CollapseSpaces(Trim(ToLowerCase(v.s))),
                                     Punctuation)),
                       CombiningMarks))

normalizeString(v) ==
    IF ~Truthy(v) \/ v.t # "string"
    THEN Str(<<>>)
    ELSE Str(RemoveAll(NFD(RemoveAll(CollapseSpaces(Trim(ToLowerCase(v.s))),
                                     Punctuation)),
                       CombiningMarks))

----------------------------------------------------------------------------
(* levenshteinDistance *)

(* the while loop that counts the common prefix *)
RECURSIVE CommonPrefix(_, _, _)
CommonPrefix(a, b, start) ==
    IF start < Len(a) /\ start < Len(b) /\ a[start + 1] = b[start + 1]
    THEN CommonPrefix(a, b, start + 1)
    ELSE start

(* the while loop that counts the common suffix *)
RECURSIVE CommonSuffix(_, _, _)
CommonSuffix(a, b, n) ==
    IF n < Len(a) /\ n < Len(b) /\ a[Len(a) - n] = b[Len(b) - n]
    THEN CommonSuffix(a, b, n + 1)
    ELSE n

(* the inner loop with the left cell copied on equal characters *)
RECURSIVE InnerLoopLeftCell(_, _, _, _, _, _)
InnerLoopLeftCell(a, b, i, j, row, prev) ==
    IF j > Len(b) THEN row
    ELSE LET val == row[j]
             new == IF a[i] = b[j]
                    THEN row[j - 1]
                    ELSE Min3(row[j - 1] + 1, prev + 1, row[j] + 1)
         IN  InnerLoopLeftCell(a, b, i, j + 1, [row EXCEPT ![j] = new], val)

(* the inner for loop over j, for one i; row is indexed 0..Len(b) *)
RECURSIVE InnerLoop(_, _, _, _, _, _)
InnerLoop(a, b, i, j, row, prev) ==
    IF j > Len(b) THEN row
    ELSE LET val == row[j]
             new == IF a[i] = b[j]
                    THEN prev
                    ELSE Min3(row[j - 1] + 1, prev + 1, row[j] + 1)
         IN  InnerLoop(a, b, i, j + 1, [row EXCEPT ![j] = new], val)

(* the outer for loop over i; prev starts at i in every row *)
RECURSIVE OuterLoop(_, _, _, _)
OuterLoop(a, b, i, row) ==
    IF i > Len(a) THEN row
    ELSE OuterLoop(a, b, i + 1, InnerLoop(a, b, i, 1, row, i))

(* the single-array dynamic programming part *)
SingleRowDistance(a, b) ==
    OuterLoop(a, b, 1, [k \in 0..Len(b) |-> k])[Len(b)]

(* the distance of the strings left after both trims *)
DistanceOfTrimmed(a, b) ==
    IF Len(a) = 0 THEN Len(b)
    ELSE IF Len(b) = 0 THEN Len(a)
    ELSE SingleRowDistance(a, b)

(* slice(0, end + 1): drop a common suffix of n characters *)
DropSuffix(a, b, n) ==
    DistanceOfTrimmed(SubSeq(a, 1, Len(a) - n), SubSeq(b, 1, Len(b) - n))

(* slice(start): drop a common prefix of start characters *)
DropPrefix(a, b, start) ==
    LET a1 == SubSeq(a, start + 1, Len(a))
        b1 == SubSeq(b, start + 1, Len(b))
    IN  DropSuffix(a1, b1, CommonSuffix(a1, b1, 0))

levenshteinDistance(a, b) ==
    IF a = b THEN 0
    ELSE IF Len(a) = 0 THEN Len(b)
    ELSE IF Len(b) = 0 THEN Len(a)
    ELSE DropPrefix(a, b, CommonPrefix(a, b, 0))

----------------------------------------------------------------------------
(* calculateSimilarity, in units of 1/Scale.  Scale is a multiple of every
   length up to 10 and of 20, so 1 - d/max and the thresholds 0.6, 0.8,
   0.85 and 0.9 are whole numbers of units; for these lengths the doubles
   the code computes compare with the thresholds as the exact values do. *)

Scale == 2520

(* the similarity normalised by the shorter length *)
calculateSimilarityMinLength(a, b) ==
    IF a = <<>> \/ b = <<>> THEN 0
    ELSE Scale - (levenshteinDistance(a, b) * Scale) \div Min2(Len(a), Len(b))

calculateSimilarity(a, b) ==
    IF a = <<>> \/ b = <<>> THEN 0
    ELSE Scale - (levenshteinDistance(a, b) * Scale) \div Max2(Len(a), Len(b))

----------------------------------------------------------------------------
(* matchGuest *)

DefaultMaxDistance == 3

(* a numeric option value, Infinity, and null *)
NumberValue(n) == [t |-> "number", n |-> n, inf |-> FALSE]

Infinity == [t |-> "number", n |-> 0, inf |-> TRUE]

NullValue == [t |-> "null", n |-> 0, inf |-> FALSE]

(* typeof maxDistance === 'number' && d > maxDistance *)
ExceedsMax(d, maxDistance) ==
    /\ maxDistance.t = "number"
    /\ ~maxDistance.inf
    /\ d > maxDistance.n

(* typeof maxDistance === 'number' && d <= maxDistance *)
WithinMax(d, maxDistance) ==
    /\ maxDistance.t = "number"
    /\ (maxDistance.inf \/ d <= maxDistance.n)

SubstringBoost == (Scale * 85) \div 100

PrefixBoost == (Scale * 9) \div 10

(* the substring bonus added to the score *)
SubstringFloorAdded(q, rep, score) ==
    IF Includes(rep, q) THEN score + SubstringBoost ELSE score

(* similarity of the query and one representation, with the substring and
   prefix floors applied *)
SubstringFloor(q, rep, score) ==
    IF Includes(rep, q) THEN Max2(score, SubstringBoost) ELSE score

PrefixFloor(q, rep, score) ==
    IF StartsWith(rep, q) THEN Max2(score, PrefixBoost) ELSE score

BoostedScore(q, rep) ==
    PrefixFloor(q, rep, SubstringFloor(q, rep, calculateSimilarity(q, rep)))

(* guest[field]; a property the record lacks reads as undefined *)
FieldValue(guest, field) ==
    IF field \in DOMAIN guest THEN guest[field] ELSE Undefined

(* the template literal `${x} ${y}` *)
JoinNames(x, y) == Str(x.s \o <<" ">> \o y.s)

NoField == "null"

(* the best match replaced also by an equal score *)
TrackBestLast(best, score, field) ==
    IF score >= best.score THEN [score |-> score, field |-> field] ELSE best

(* if (score > bestScore) { bestScore = score; bestField = field } *)
TrackBest(best, score, field) ==
    IF score > best.score THEN [score |-> score, field |-> field] ELSE best

(* a simple field scored without the maxDistance cutoff *)
FieldStepNoCutoff(q, rep, field, maxDistance, best) ==
    TrackBest(best, BoostedScore(q, rep), field)

(* one simple field whose normalized value is rep *)
FieldStep(q, rep, field, maxDistance, best) ==
    IF ExceedsMax(levenshteinDistance(q, rep), maxDistance)
    THEN best
    ELSE TrackBest(best, BoostedScore(q, rep), field)

(* the searchFields.forEach loop, from field k on; best = [score, field] *)
RECURSIVE FieldLoop(_, _, _, _, _, _)
FieldLoop(q, guest, searchFields, maxDistance, k, best) ==
    IF k > Len(searchFields) THEN best
    ELSE FieldLoop(q, guest, searchFields, maxDistance, k + 1,
             IF ~Truthy(FieldValue(guest, searchFields[k]))
             THEN best
             ELSE FieldStep(q,
                      normalizeString(FieldValue(guest, searchFields[k])).s,
                      searchFields[k], maxDistance, best))

(* a concatenated form reported under a label of its own *)
CombinedNameOwnLabel(q, name, maxDistance, best) ==
    IF WithinMax(levenshteinDistance(q, name), maxDistance)
    THEN TrackBest(best, BoostedScore(q, name), "combined")
    ELSE best

(* one concatenated form whose normalized value is name *)
CombinedName(q, name, maxDistance, best) ==
    IF WithinMax(levenshteinDistance(q, name), maxDistance)
    THEN TrackBest(best, BoostedScore(q, name), "fullName")
    ELSE best

(* one of the two concatenated forms, reported as fullName *)
CombinedStep(q, guest, x, y, maxDistance, best) ==
    IF Truthy(guest.firstName) /\ Truthy(guest.lastName)
    THEN CombinedName(q, normalizeString(JoinNames(x, y)).s, maxDistance,
                      best)
    ELSE best

(* the distance reported with the best match *)
ReportedDistance(q, guest, bestField) ==
    IF bestField # NoField /\ Truthy(FieldValue(guest, bestField))
    THEN levenshteinDistance(q,
             normalizeString(FieldValue(guest, bestField)).s)
    ELSE IF Truthy(guest.firstName) /\ Truthy(guest.lastName)
    THEN levenshteinDistance(q,
             normalizeString(JoinNames(guest.firstName, guest.lastName)).s)
    ELSE NoValue

NoMatch == [score |-> 0, matchedField |-> NoField, distance |-> NoValue]

(* the return statement without the bestScore > 0 test *)
BestMatchAnyScore(q, guest, best) ==
    [score |-> best.score,
     matchedField |-> best.field,
     distance |-> ReportedDistance(q, guest, best.field)]

(* the return statement, for the best representation found *)
BestMatch(q, guest, best) ==
    IF best.score > 0
    THEN [score |-> best.score,
          matchedField |-> best.field,
          distance |-> ReportedDistance(q, guest, best.field)]
    ELSE NoMatch

(* matchGuest without the lastName + firstName form *)
MatchStagesNoReversed(q, guest, searchFields, maxDistance) ==
    BestMatch(q, guest,
        CombinedStep(q, guest, guest.firstName, guest.lastName, maxDistance,
            FieldLoop(q, guest, searchFields, maxDistance, 1,
                      [score |-> 0, field |-> NoField])))

(* the three stages of matchGuest, once maxDistance is a number *)
MatchStages(q, guest, searchFields, maxDistance) ==
    BestMatch(q, guest,
        CombinedStep(q, guest, guest.lastName, guest.firstName, maxDistance,
            CombinedStep(q, guest, guest.firstName, guest.lastName,
                maxDistance,
                FieldLoop(q, guest, searchFields, maxDistance, 1,
                          [score |-> 0, field |-> NoField]))))

(* matchGuest: NoMatch stands for the null return *)
matchGuest(q, guest, searchFields, maxDistance) ==
    MatchStages(q, guest, searchFields,
                IF maxDistance.t = "null" THEN Infinity ELSE maxDistance)

----------------------------------------------------------------------------
(* fuzzySearchGuests *)

(* the default the function's header comment documents: 0.7 *)
DefaultMinSimilarityDocumented == (Scale * 7) \div 10

DefaultMinSimilarity == (Scale * 6) \div 10

ShortQueryMinSimilarity == (Scale * 8) \div 10

DefaultSearchFields == <<"fullName", "firstName", "lastName">>

(* the destructuring defaults: an option the caller leaves out *)
OptMaxDistance(o) ==
    IF "maxDistance" \in DOMAIN o
    THEN o.maxDistance
    ELSE NumberValue(DefaultMaxDistance)

OptMinSimilarity(o) ==
    IF "minSimilarity" \in DOMAIN o
    THEN o.minSimilarity
    ELSE DefaultMinSimilarity

OptSearchFields(o) ==
    IF "searchFields" \in DOMAIN o
    THEN o.searchFields
    ELSE DefaultSearchFields

(* the threshold without the rule for short queries *)
EffectiveMinSimilarityNoShortRule(normalizedQuery, minSimilarity) ==
    minSimilarity

EffectiveMinSimilarity(normalizedQuery, minSimilarity) ==
    IF Len(normalizedQuery) <= 2
    THEN ShortQueryMinSimilarity
    ELSE minSimilarity

(* a match keeps a reference to its guest, held as the guest's index in
   the collection *)
MatchEntry(k, m) ==
    [guest |-> k, score |-> m.score, matchedField |-> m.matchedField,
     distance |-> m.distance]

(* the threshold test with a strict comparison *)
KeepMatchStrict(matches, k, m, minSim) ==
    IF m # NoMatch /\ m.score > minSim
    THEN Append(matches, MatchEntry(k, m))
    ELSE matches

(* if (matchResult) { if (score >= effectiveMinSimilarity) push } *)
KeepMatch(matches, k, m, minSim) ==
    IF m # NoMatch /\ m.score >= minSim
    THEN Append(matches, MatchEntry(k, m))
    ELSE matches

(* the forEach loop with the best score kept across guests: a guest is
   kept only when it beats every guest kept before it *)
RECURSIVE CollectMatchesSharedBest(_, _, _, _, _, _, _)
CollectMatchesSharedBest(q, gs, fields, maxDist, minSim, k, matches) ==
    IF k > Len(gs) THEN matches
    ELSE CollectMatchesSharedBest(q, gs, fields, maxDist, minSim, k + 1,
             KeepMatch(matches, k,
                       matchGuest(q, gs[k], fields, maxDist),
                       IF matches = <<>>
                       THEN minSim
                       ELSE Max2(minSim, matches[Len(matches)].score + 1)))

(* the guests.forEach loop, from guest k on *)
RECURSIVE CollectMatches(_, _, _, _, _, _, _)
CollectMatches(q, gs, searchFields, maxDistance, minSim, k, matches) ==
    IF k > Len(gs) THEN matches
    ELSE CollectMatches(q, gs, searchFields, maxDistance, minSim, k + 1,
             KeepMatch(matches, k,
                       matchGuest(q, gs[k], searchFields, maxDistance),
                       minSim))

(* insert m after every element whose score is at least m's *)
RECURSIVE InsertByScore(_, _)
InsertByScore(sorted, m) ==
    IF sorted = <<>> THEN <<m>>
    ELSE IF Head(sorted).score >= m.score
         THEN <<Head(sorted)>> \o InsertByScore(Tail(sorted), m)
         ELSE <<m>> \o sorted

(* the matches left in collection order *)
SortByScoreOmitted(matches) == matches

(* matches.sort((a, b) => b.score - a.score): stable, descending *)
RECURSIVE SortByScore(_)
SortByScore(matches) ==
    IF matches = <<>> THEN <<>>
    ELSE InsertByScore(SortByScore(SubSeq(matches, 1, Len(matches) - 1)),
                       matches[Len(matches)])

(* the search once the query is normalized *)
SearchNormalized(normalizedQuery, gs, o) ==
    [outcome |-> "returned",
     results |->
         SortByScore(
             CollectMatches(normalizedQuery, gs, OptSearchFields(o),
                 OptMaxDistance(o),
                 EffectiveMinSimilarity(normalizedQuery, OptMinSimilarity(o)),
                 1, <<>>)),
     evaluated |-> Len(gs)]

(* the search with only the !query test for an empty query *)
fuzzySearchGuestsNoTrimTest(q, gs, o) ==
    IF ~Truthy(q)
    THEN [outcome |-> "returned", results |-> <<>>, evaluated |-> 0]
    ELSE IF q.t # "string"
    THEN [outcome |-> "threw", results |-> <<>>, evaluated |-> 0]
    ELSE SearchNormalized(normalizeString(q).s, gs, o)

(* fuzzySearchGuests: how the call ends, what it returns and how many
   guests it handed to matchGuest *)
fuzzySearchGuests(q, gs, o) ==
    IF ~Truthy(q)
    THEN [outcome |-> "returned", results |-> <<>>, evaluated |-> 0]
    ELSE IF q.t # "string"
    THEN [outcome |-> "threw", results |-> <<>>, evaluated |-> 0]
    ELSE IF Len(Trim(q.s)) = 0
    THEN [outcome |-> "returned", results |-> <<>>, evaluated |-> 0]
    ELSE SearchNormalized(normalizeString(q).s, gs, o)

----------------------------------------------------------------------------
(* Inputs of the distance / similarity calls *)

LevAlphabet == {"a", "b", "c"}

kitten == <<"k", "i", "t", "t", "e", "n">>
sitting == <<"s", "i", "t", "t", "i", "n", "g">>
john == <<"j", "o", "h", "n">>
jon == <<"j", "o", "n">>
flaw == <<"f", "l", "a", "w">>
lawn == <<"l", "a", "w", "n">>
abc == <<"a", "b", "c">>
same == <<"s", "a", "m", "e">>

(* the pairs of test_lev.js *)
TestPairs ==
    {<<kitten, sitting>>, <<john, jon>>, <<flaw, lawn>>, <<<<>>, abc>>,
     <<same, same>>}

LevStrings == SeqUpTo(LevAlphabet, MaxLen)

LevPairs == (LevStrings \X LevStrings) \cup TestPairs

(* values of the search variables while no search has been made *)
(* no request made yet, no message shown *)
NoFetch == [kind |-> "none"]

NoMessage == "null"

(* the lookup page not mounted *)
LoadIdle ==
    /\ apiKey = Undefined
    /\ sheetId = Undefined
    /\ sheetRange = Undefined
    /\ loadingState = "idle"
    /\ errorMessage = NoMessage
    /\ fetched = NoFetch

(* useState(null) of searchResults, and a results array *)
NullResults == [isNull |-> TRUE, items |-> <<>>]

ResultsArray(items) == [isNull |-> FALSE, items |-> items]

(* useState(null) of selectedResult *)
NoSelection ==
    [guest |-> 0, score |-> 0, matchedField |-> NoField, distance |-> NoValue]

(* the search state of the lookup page as useState initialises it *)
LookupIdle ==
    /\ searchQuery = <<>>
    /\ searchResults = NullResults
    /\ hasSearched = FALSE
    /\ selectedResult = NoSelection

NoCall == [op |-> "none", id |-> "none", warned |-> FALSE]

(* the scroll lock as the module initialises it, no component mounted *)
LockIdle ==
    /\ lockCount = 0
    /\ locks = {}
    /\ noScroll = FALSE
    /\ lastCall = NoCall
    /\ headerMounted = FALSE
    /\ isMenuOpen = FALSE
    /\ isLightboxOpen = FALSE

PageIdle == LookupIdle /\ LockIdle

SearchIdle ==
    /\ searchPc = "idle"
    /\ query = Undefined
    /\ options = <<>>
    /\ outcome = "none"
    /\ results = <<>>
    /\ evaluated = 0
    /\ normInput = Undefined
    /\ normOutput = Undefined
    /\ matchResult = NoMatch

LevIdle ==
    /\ levPc = "ready"
    /\ distance = NoValue
    /\ similarity = NoValue

LevInit ==
    /\ \E p \in LevPairs : str1 = p[1] /\ str2 = p[2]
    /\ LevIdle
    /\ PageIdle
    /\ LoadIdle
    /\ guests = <<>>
    /\ SearchIdle

CallLevenshtein ==
    /\ levPc = "ready"
    /\ distance' = levenshteinDistance(str1, str2)
    /\ levPc' = "distance"
    /\ UNCHANGED <<str1, str2, similarity>>
    /\ UNCHANGED searchVars
    /\ UNCHANGED loadVars
    /\ UNCHANGED pageVars

CallSimilarity ==
    /\ levPc = "ready"
    /\ similarity' = calculateSimilarity(str1, str2)
    /\ distance' = IF str1 = <<>> \/ str2 = <<>>
                   THEN NoValue
                   ELSE levenshteinDistance(str1, str2)
    /\ levPc' = "similarity"
    /\ UNCHANGED <<str1, str2>>
    /\ UNCHANGED searchVars
    /\ UNCHANGED loadVars
    /\ UNCHANGED pageVars

LevNext == CallLevenshtein \/ CallSimilarity

LevSpec == LevInit /\ [][LevNext]_vars

----------------------------------------------------------------------------
(* Claims about levenshteinDistance and calculateSimilarity *)

(* the classic Levenshtein distance, by its defining recurrence *)
RECURSIVE ClassicDistance(_, _)
ClassicDistance(a, b) ==
    IF a = <<>> THEN Len(b)
    ELSE IF b = <<>> THEN Len(a)
    ELSE Min3(ClassicDistance(Tail(a), b) + 1,
              ClassicDistance(a, Tail(b)) + 1,
              ClassicDistance(Tail(a), Tail(b))
                  + (IF Head(a) = Head(b) THEN 0 ELSE 1))

(* C1: for every pair of strings, levenshteinDistance returns the classic
   Levenshtein distance (minimum number of insertions, deletions and
   substitutions), the pairs of the test table included. *)
C1_DistanceIsClassic ==
    levPc = "distance" => distance = ClassicDistance(str1, str2)

(* C2: levenshteinDistance is symmetric: the value returned for (a, b) is
   the value the function gives for (b, a). *)
C2_DistanceSymmetric ==
    levPc = "distance" => distance = levenshteinDistance(str2, str1)

(* C3: on the reference inputs the distance is the stated one:
   kitten/sitting 3, john/jon 1, ""/abc 3, and 0 for a string compared
   with itself. *)
C3_ReferenceValues ==
    levPc = "distance" =>
        /\ (str1 = kitten /\ str2 = sitting) => distance = 3
        /\ (str1 = john /\ str2 = jon) => distance = 1
        /\ (str1 = <<>> /\ str2 = abc) => distance = 3
        /\ (str1 = str2) => distance = 0

C3_Witness ==
    /\ levPc = "distance"
    /\ str1 = kitten
    /\ str2 = sitting
    /\ distance = 3

(* C4: for non-empty strings the distance is at most the longer length, so
   the similarity lies in [0, 1]; and a non-empty string has similarity 1
   with itself. *)
C4_SimilarityBounded ==
    (levPc = "similarity" /\ str1 # <<>> /\ str2 # <<>>) =>
        /\ distance <= Max2(Len(str1), Len(str2))
        /\ similarity >= 0
        /\ similarity <= Scale
        /\ (str1 = str2 => similarity = Scale)

C4_Witness ==
    /\ levPc = "similarity"
    /\ Len(str1) = 2
    /\ Len(str2) = 1
    /\ distance = 1
    /\ similarity = Scale \div 2

(* C20: trimming the common prefix and suffix does not change the result:
   for different non-empty strings the distance returned equals the value
   of the single-array loop run on the untrimmed strings. *)
C20_TrimmingIsOptimization ==
    (levPc = "distance" /\ str1 # <<>> /\ str2 # <<>> /\ str1 # str2) =>
        distance = SingleRowDistance(str1, str2)


----------------------------------------------------------------------------
(* The search: a loaded guest collection, searched and normalised against *)

Guest(first, last, full) ==
    [firstName |-> first, lastName |-> last, fullName |-> full,
     table |-> Str(<<"5">>), guests |-> Str(<<>>)]

(* guest records as the data model of the search allows them: every name
   field optional or empty, names with capitals and spaces *)
GuestPool ==
    {Guest(Str(<<"A", "b">>), Str(<<"B">>), Str(<<"A", "b", " ", "B">>)),
     Guest(Undefined, Undefined, Str(<<"b", "a">>)),
     Guest(Str(<<"b">>), Str(<<"a", "b">>), Str(<<>>)),
     Guest(Undefined, Undefined, Undefined)}

GuestCollections == SeqUpTo(GuestPool, MaxGuests)

QueryAlphabet == {"a", "b", " "}

(* queries: every string over the alphabet up to the bound, some with
   tabs, capitals, punctuation and accents, and values that are not
   strings *)
Queries ==
    {Str(s) : s \in SeqUpTo(QueryAlphabet, MaxQueryLen)}
    \cup {Str(<<"\t">>), Str(<<" ", "\t", " ">>), Str(<<"A", "B", " ", "b">>),
          Str(<<"a", "b", " ", "b">>), Str(<<"b", " ", "a", "b">>),
          Str(<<"b", " ", "b">>), Str(<<"a", "-">>), Str(<<"e_acute">>),
          Undefined, Null, Num}

OptionsPool ==
    {<<>>,
     [maxDistance |-> NumberValue(1)],
     [maxDistance |-> NullValue],
     [minSimilarity |-> SubstringBoost],
     [searchFields |-> <<"lastName", "firstName">>]}

NormalizeInputs ==
    {Undefined, Null, Num, Str(<<>>), Str(<<" ", "A", "-", "b", "\t">>),
     Str(<<"E_acute", ".">>)}

Init ==
    /\ guests \in GuestCollections
    /\ SearchIdle
    /\ str1 = <<>>
    /\ str2 = <<>>
    /\ LevIdle
    /\ PageIdle
    /\ LoadIdle

Reverse(seq) == [k \in 1..Len(seq) |-> seq[Len(seq) + 1 - k]]

(* the caller's view of a finished call fuzzySearchGuests(q, guests, o) *)
Returned(q, o, r) ==
    /\ query' = q
    /\ options' = o
    /\ outcome' = r.outcome
    /\ results' = r.results
    /\ evaluated' = r.evaluated
    /\ searchPc' = "searched"
    /\ UNCHANGED <<normInput, normOutput, matchResult>>
    /\ UNCHANGED levVars
    /\ UNCHANGED pageVars
    /\ UNCHANGED loadVars

(* a search that reorders the caller's collection in place *)
SearchReordersGuests ==
    /\ searchPc = "idle"
    /\ \E q \in Queries, o \in OptionsPool :
           Returned(q, o, fuzzySearchGuests(q, guests, o))
    /\ guests' = Reverse(guests)

(* a caller runs fuzzySearchGuests(q, guests, o) *)
Search ==
    /\ searchPc = "idle"
    /\ \E q \in Queries, o \in OptionsPool :
           Returned(q, o, fuzzySearchGuests(q, guests, o))
    /\ UNCHANGED guests

(* a caller runs normalizeString(v) *)
CallNormalize ==
    /\ searchPc = "idle"
    /\ \E v \in NormalizeInputs :
        /\ normInput' = v
        /\ normOutput' = normalizeString(v)
    /\ searchPc' = "normalized"
    /\ UNCHANGED <<guests, query, options, outcome, results, evaluated,
                   matchResult>>
    /\ UNCHANGED levVars
    /\ UNCHANGED pageVars
    /\ UNCHANGED loadVars

(* the caller drops the returned value; the collection stays loaded *)
Discard ==
    /\ searchPc # "idle"
    /\ searchPc' = "idle"
    /\ query' = Undefined
    /\ options' = <<>>
    /\ outcome' = "none"
    /\ results' = <<>>
    /\ evaluated' = 0
    /\ normInput' = Undefined
    /\ normOutput' = Undefined
    /\ matchResult' = NoMatch
    /\ UNCHANGED guests
    /\ UNCHANGED levVars
    /\ UNCHANGED pageVars
    /\ UNCHANGED loadVars

Next == Search \/ CallNormalize \/ Discard

Spec == Init /\ [][Next]_vars

----------------------------------------------------------------------------
(* Claims about fuzzySearchGuests *)

IsText(v) == v.t = "string"

Blank(v) == \A k \in 1..Len(v.s) : v.s[k] \in WhiteSpace

(* the last call was a search with a text query that is not blank *)
SearchedText == searchPc = "searched" /\ IsText(query) /\ ~Blank(query)

(* C5: for an empty or whitespace-only query the search returns the empty
   sequence, whatever the collection and the options, and hands no guest to
   matchGuest. *)
C5_BlankQueryEmpty ==
    (searchPc = "searched" /\ IsText(query) /\ Blank(query)) =>
        /\ outcome = "returned"
        /\ results = <<>>
        /\ evaluated = 0

C5_Witness ==
    /\ searchPc = "searched"
    /\ query = Str(<<" ", "\t", " ">>)
    /\ Len(guests) = 2
    /\ results = <<>>
    /\ evaluated = 0

(* a returned element is a MatchResult over the collection *)
IsMatchResult(r) ==
    /\ DOMAIN r = {"guest", "score", "matchedField", "distance"}
    /\ r.guest \in 1..Len(guests)
    /\ r.score \in 0..Scale
    /\ r.matchedField \in STRING
    /\ r.distance \in Nat \cup {NoValue}

(* C6: for any text query and any collection of guest records, with fields
   present, absent or empty, the search returns a sequence of MatchResults
   and never ends in an exception; and normalizeString returns the empty
   string for null or non-text input. *)
C6_NeverRaises ==
    /\ (searchPc = "searched" /\ IsText(query)) =>
           /\ outcome = "returned"
           /\ \A k \in 1..Len(results) : IsMatchResult(results[k])
    /\ (searchPc = "normalized" /\ ~IsText(normInput)) =>
           normOutput = Str(<<>>)

C6_Witness ==
    /\ searchPc = "searched"
    /\ IsText(query)
    /\ \E k \in 1..Len(guests) :
           /\ guests[k].firstName = Undefined
           /\ guests[k].fullName = Undefined
    /\ \E k \in 1..Len(guests) : guests[k].fullName = Str(<<>>)
    /\ outcome = "returned"
    /\ results # <<>>

(* C7: a search leaves the collection and every record as they were, each
   returned match refers to a record of that collection, and the returned
   value is determined by the arguments of the call alone, whatever calls
   came before. *)
C7_InputsUntouched ==
    [][/\ guests' = guests
       /\ searchPc' = "searched" =>
              /\ \A k \in 1..Len(results') :
                     results'[k].guest \in 1..Len(guests)
              /\ results' = fuzzySearchGuests(query', guests, options').results
      ]_vars

C7_Witness ==
    /\ searchPc = "searched"
    /\ Len(guests) = 2
    /\ guests[1] # guests[2]
    /\ Len(results) = 2

(* the score the search gave to guest k, or NoValue when k is not returned *)
ScoreIn(res, k) ==
    IF \E n \in 1..Len(res) : res[n].guest = k
    THEN (CHOOSE r \in {res[n] : n \in 1..Len(res)} : r.guest = k).score
    ELSE NoValue

(* C8: the score of a guest, and whether it is returned, depends only on
   the query, the options and the guest's own record: searching the guest
   alone, or the collection in reverse order, gives it the same score. *)
C8_ScoreIndependent ==
    SearchedText =>
        LET rev == fuzzySearchGuests(query, Reverse(guests), options).results
        IN  \A k \in 1..Len(guests) :
                LET solo == fuzzySearchGuests(query, <<guests[k]>>,
                                              options).results
                IN  /\ ScoreIn(results, k) = ScoreIn(solo, 1)
                    /\ ScoreIn(results, k) = ScoreIn(rev, Len(guests) + 1 - k)

C8_Witness ==
    /\ SearchedText
    /\ Len(guests) = 2
    /\ ScoreIn(results, 1) > 0
    /\ ScoreIn(results, 2) > 0
    /\ ScoreIn(results, 2) < ScoreIn(results, 1)

(* C9: the returned sequence is ordered by score, descending: every result
   has a score at least that of the next one. *)
C9_SortedDescending ==
    searchPc = "searched" =>
        \A k \in 1..(Len(results) - 1) :
            results[k].score >= results[k + 1].score

C9_Witness ==
    /\ searchPc = "searched"
    /\ Len(results) = 2
    /\ results[1].guest = 2
    /\ results[2].guest = 1
    /\ results[1].score > results[2].score

(* the guests whose matchGuest result exists and reaches the effective
   minimum similarity *)
Qualifying ==
    LET q == normalizeString(query).s
        minSim == EffectiveMinSimilarity(q, OptMinSimilarity(options))
    IN  {k \in 1..Len(guests) :
            LET m == matchGuest(q, guests[k], OptSearchFields(options),
                                OptMaxDistance(options))
            IN  m # NoMatch /\ m.score >= minSim}

(* C10: the search returns exactly the guests whose matchGuest result
   exists and has a score of at least the effective minimum similarity,
   each of them once. *)
C10_ExactlyQualifying ==
    SearchedText =>
        /\ {results[n].guest : n \in 1..Len(results)} = Qualifying
        /\ Len(results) = Cardinality(Qualifying)

C10_Witness ==
    /\ SearchedText
    /\ Len(guests) = 2
    /\ Len(results) = 1
    /\ "minSimilarity" \in DOMAIN options
    /\ Len(normalizeString(query).s) > 2
    /\ results[1].score = options.minSimilarity

----------------------------------------------------------------------------
(* The search over a list of named guests, with the queries a guest types
   for them *)

AbName == <<"A", "b">>

BabName == <<"B", "a", "b">>

AbBabName == <<"A", "b", " ", "B", "a", "b">>

BaAbName == <<"B", "a", " ", "A", "b">>

(* a record with all three names, one with first and hyphenated last
   name only, records that carry fullName alone, one of them a single word
   and one a lone hyphen *)
NamePool ==
    {Guest(Str(AbName), Str(BabName), Str(AbBabName)),
     Guest(Str(<<"B", "a">>), Str(<<"A", "-", "b">>), Str(<<>>)),
     Guest(Undefined, Undefined, Str(AbBabName)),
     Guest(Undefined, Undefined, Str(BaAbName)),
     Guest(Undefined, Undefined, Str(<<"a", "b", "a">>)),
     Guest(Undefined, Undefined, Str(<<"-">>))}

NameCollections == SeqUpTo(NamePool, MaxGuests)

NameAlphabet == {"a", "b", "c", " "}

DeleteAt(s, k) ==
    [i \in 1..(Len(s) - 1) |-> IF i < k THEN s[i] ELSE s[i + 1]]

SubstituteAt(s, k, c) == [s EXCEPT ![k] = c]

InsertAt(s, k, c) ==
    [i \in 1..(Len(s) + 1) |->
        IF i < k THEN s[i] ELSE IF i = k THEN c ELSE s[i - 1]]

(* the strings exactly one insertion, deletion or substitution from s *)
OneEdit(s) ==
    ({DeleteAt(s, k) : k \in 1..Len(s)}
     \cup {SubstituteAt(s, k, c) : k \in 1..Len(s), c \in NameAlphabet}
     \cup {InsertAt(s, k, c) : k \in 1..(Len(s) + 1), c \in NameAlphabet})
    \ {s}

(* the characters of s before its first space *)
FirstWord(s) ==
    IF \E i \in 1..Len(s) : s[i] = " "
    THEN SubSeq(s, 1, (CHOOSE i \in 1..Len(s) :
                          /\ s[i] = " "
                          /\ \A j \in 1..(i - 1) : s[j] # " ") - 1)
    ELSE s

(* "Last, First" *)
CommaForm(x, y) == Str(x.s \o <<",", " ">> \o y.s)

(* a guest's name with one typing error *)
TypoQueriesOf(g) ==
    IF g.fullName.t = "string"
    THEN {Str(s) : s \in OneEdit(normalizeString(g.fullName).s)}
    ELSE {}

(* a guest's name as written, its first word, and its reversed forms *)
NameQueriesOf(g) ==
    (IF g.fullName.t = "string"
     THEN {g.fullName, Str(FirstWord(g.fullName.s))}
     ELSE {})
    \cup (IF Truthy(g.firstName) /\ Truthy(g.lastName)
          THEN {JoinNames(g.lastName, g.firstName),
                CommaForm(g.lastName, g.firstName)}
          ELSE {})

ShortQueries ==
    {Str(s) : s \in SeqUpTo({"a", "b"}, MaxQueryLen) \ {<<>>}}

NameOptions ==
    {<<>>,
     [maxDistance |-> NumberValue(1)],
     [minSimilarity |-> Scale \div 2],
     [minSimilarity |-> (Scale * 95) \div 100],
     [searchFields |-> <<"table", "fullName">>]}

(* the calls made on a collection: mistyped names under the default
   options, every other query under each option record *)
NameCalls(gs) ==
    {[q |-> q, o |-> <<>>] :
        q \in UNION {TypoQueriesOf(gs[k]) : k \in 1..Len(gs)}}
    \cup {[q |-> q, o |-> o] :
            q \in ShortQueries \cup {Str(<<"-">>), Str(<<"5">>)}
                  \cup UNION {NameQueriesOf(gs[k]) : k \in 1..Len(gs)},
            o \in NameOptions}

NameInit ==
    /\ guests \in NameCollections
    /\ SearchIdle
    /\ str1 = <<>>
    /\ str2 = <<>>
    /\ LevIdle
    /\ PageIdle
    /\ LoadIdle

(* a guest looks a name up: fuzzySearchGuests(q, guests, o) *)
NameSearch ==
    /\ searchPc = "idle"
    /\ \E c \in NameCalls(guests) :
           Returned(c.q, c.o, fuzzySearchGuests(c.q, guests, c.o))
    /\ UNCHANGED guests

NameNext == NameSearch \/ Discard

NameSpec == NameInit /\ [][NameNext]_vars

----------------------------------------------------------------------------
(* Claims about the matching of names *)

NormalizedQuery == normalizeString(query).s

(* C11: when the normalized query has length 2 or less, every result of
   the search has a score of at least 0.8, whatever minimum the options
   give. *)
C11_ShortQueryThreshold ==
    (SearchedText /\ Len(NormalizedQuery) <= 2) =>
        \A n \in 1..Len(results) :
            results[n].score >= ShortQueryMinSimilarity

C11_Witness ==
    /\ SearchedText
    /\ query = Str(<<"a", "a">>)
    /\ options = <<>>
    /\ Len(guests) = 1
    /\ guests[1].fullName = Str(<<"a", "b", "a">>)
    /\ calculateSimilarity(<<"a", "a">>, <<"a", "b", "a">>)
           >= DefaultMinSimilarity
    /\ results = <<>>

(* C12: under the default options, a query whose normalized form has
   length 3 or more and is exactly one insertion, deletion or substitution
   from a guest's normalized fullName returns that guest with a score of at
   least 0.6. *)
C12_SingleTypoTolerated ==
    (SearchedText /\ options = <<>> /\ Len(NormalizedQuery) >= 3) =>
        \A k \in 1..Len(guests) :
            (/\ guests[k].fullName.t = "string"
             /\ NormalizedQuery
                    \in OneEdit(normalizeString(guests[k].fullName).s))
            => ScoreIn(results, k) >= DefaultMinSimilarity

C12_Witness ==
    /\ SearchedText
    /\ options = <<>>
    /\ query = Str(<<"a", "b", "c">>)
    /\ Len(guests) = 1
    /\ guests[1].fullName = Str(<<"a", "b", "a">>)
    /\ Len(results) = 1
    /\ results[1].score = (Scale * 2) \div 3
    /\ results[1].distance = 1

(* C13: for a guest with non-empty firstName F and lastName L, the queries
   "L F" and "L, F" return the guest, also when fullName, firstName and
   lastName are each further than maxDistance from the query. *)
C13_ReversedNameFound ==
    SearchedText =>
        \A k \in 1..Len(guests) :
            (/\ Truthy(guests[k].firstName)
             /\ Truthy(guests[k].lastName)
             /\ query \in {JoinNames(guests[k].lastName, guests[k].firstName),
                           CommaForm(guests[k].lastName, guests[k].firstName)})
            => ScoreIn(results, k) # NoValue

C13_Witness ==
    /\ SearchedText
    /\ Len(guests) = 1
    /\ query = CommaForm(guests[1].lastName, guests[1].firstName)
    /\ options = [maxDistance |-> NumberValue(1)]
    /\ \A f \in {"fullName", "firstName", "lastName"} :
           /\ Truthy(guests[1][f])
           /\ ExceedsMax(levenshteinDistance(NormalizedQuery,
                             normalizeString(guests[1][f]).s),
                         options.maxDistance)
    /\ Len(results) = 1
    /\ results[1].score = Scale
    /\ results[1].matchedField = "fullName"

(* C26: for short queries the threshold is only ever raised: no result has
   a score below the minSimilarity the caller configured, also when the
   normalized query has 2 characters or fewer (stated for the queries
   whose normalized form is not empty). *)
C26_ThresholdOnlyRaised ==
    (/\ SearchedText
     /\ "minSimilarity" \in DOMAIN options
     /\ NormalizedQuery # <<>>) =>
        \A n \in 1..Len(results) :
            results[n].score >= options.minSimilarity

(* C27: the matcher never runs with an empty normalized query: whenever a
   search hands a guest to matchGuest the normalized query is not empty,
   so a query made only of the stripped characters returns nothing. *)
C27_QueryNeverEmpty ==
    SearchedText =>
        /\ evaluated > 0 => NormalizedQuery # <<>>
        /\ NormalizedQuery = <<>> => results = <<>>

(* the normalized representations matchGuest evaluates for a guest: the
   simple fields within maxDistance and the two concatenated forms *)
EvaluatedForms(q, guest, o) ==
    LET maxDistance == IF OptMaxDistance(o).t = "null"
                       THEN Infinity
                       ELSE OptMaxDistance(o)
        fields == OptSearchFields(o)
        simple == {normalizeString(FieldValue(guest, fields[i])).s :
                      i \in {j \in 1..Len(fields) :
                                Truthy(FieldValue(guest, fields[j]))}}
        joined == IF Truthy(guest.firstName) /\ Truthy(guest.lastName)
                  THEN {normalizeString(JoinNames(guest.firstName,
                                                  guest.lastName)).s,
                        normalizeString(JoinNames(guest.lastName,
                                                  guest.firstName)).s}
                  ELSE {}
    IN  {rep \in simple :
            ~ExceedsMax(levenshteinDistance(q, rep), maxDistance)}
        \cup {rep \in joined :
                 WithinMax(levenshteinDistance(q, rep), maxDistance)}

(* result n is of a guest one of whose evaluated forms is the query *)
ExactMatch(n) ==
    NormalizedQuery
        \in EvaluatedForms(NormalizedQuery, guests[results[n].guest], options)

(* C14: a result's score lies in (0, 1] and is 1 exactly when one of the
   guest's evaluated representations is identical to the normalized query;
   so an exact match is ranked strictly above every result that is not
   one. *)
C14_ExactScoresOne ==
    SearchedText =>
        /\ \A n \in 1..Len(results) :
               /\ results[n].score > 0
               /\ results[n].score <= Scale
               /\ results[n].score = Scale <=> ExactMatch(n)
        /\ \A n, m \in 1..Len(results) :
               (ExactMatch(n) /\ ~ExactMatch(m)) => n < m

(* the text is "<First> <Last>": two words with one space between *)
IsFirstLast(s) ==
    /\ Cardinality({i \in 1..Len(s) : s[i] = " "}) = 1
    /\ s[1] # " "
    /\ s[Len(s)] # " "

(* guest k is named "<First> <Last>" and the query is <First> alone,
   searched under the default options *)
FirstNameQuery(k) ==
    /\ SearchedText
    /\ options = <<>>
    /\ guests[k].fullName.t = "string"
    /\ IsFirstLast(guests[k].fullName.s)
    /\ query = Str(FirstWord(guests[k].fullName.s))

(* the length of what the normalized fullName has after the query *)
RestOfName(k) ==
    Len(normalizeString(guests[k].fullName).s) - Len(NormalizedQuery)

(* C15, as stated: the first name alone returns every guest whose
   fullName is "<First> <Last>", with or without firstName and lastName
   fields. *)
C15_FirstNameAloneFound ==
    \A k \in 1..Len(guests) :
        FirstNameQuery(k) => ScoreIn(results, k) # NoValue

(* C15, amended: the first name alone returns the guest when the record
   carries that first name as firstName, or when the rest of the
   normalized fullName is at most maxDistance (3) characters; a record
   with fullName alone and a longer rest is not returned. *)
C15_FirstNameFoundIfNear ==
    \A k \in 1..Len(guests) :
        FirstNameQuery(k) =>
            /\ (\/ guests[k].firstName = query
                \/ RestOfName(k) <= DefaultMaxDistance)
               => ScoreIn(results, k) # NoValue
            /\ (/\ ~Truthy(guests[k].firstName)
                /\ ~Truthy(guests[k].lastName)
                /\ RestOfName(k) > DefaultMaxDistance)
               => ScoreIn(results, k) = NoValue

C15_Witness ==
    /\ Len(guests) = 2
    /\ FirstNameQuery(1)
    /\ FirstNameQuery(2)
    /\ guests[1].firstName = query
    /\ guests[2].firstName = Undefined
    /\ RestOfName(2) > DefaultMaxDistance
    /\ Len(results) = 1
    /\ results[1].guest = 1

NameFields == {"firstName", "lastName", "fullName"}

(* C17, as stated: whatever searchFields the caller passes, every result
   has matchedField in {firstName, lastName, fullName}. *)
C17_MatchedFieldIsName ==
    searchPc = "searched" =>
        \A n \in 1..Len(results) : results[n].matchedField \in NameFields

(* the best score and field of the simple fields of result n's guest *)
BestSimpleField(n) ==
    FieldLoop(NormalizedQuery, guests[results[n].guest],
              OptSearchFields(options), OptMaxDistance(options), 1,
              [score |-> 0, field |-> NoField])

(* C17, amended: every result has as matchedField one of the searchFields
   of the call or fullName, hence one of {firstName, lastName, fullName}
   when the searchFields are among these; a win by a concatenated form is
   reported as fullName. *)
C17_MatchedFieldIsSearched ==
    SearchedText =>
        \A n \in 1..Len(results) :
            LET fields == OptSearchFields(options)
                named == {fields[i] : i \in 1..Len(fields)}
            IN  /\ results[n].matchedField \in named \cup {"fullName"}
                /\ named \subseteq NameFields
                       => results[n].matchedField \in NameFields
                /\ results[n].score > BestSimpleField(n).score
                       => results[n].matchedField = "fullName"

C17_Witness ==
    /\ SearchedText
    /\ query = Str(<<"5">>)
    /\ "searchFields" \in DOMAIN options
    /\ Len(results) = 1
    /\ results[1].matchedField = "table"
    /\ results[1].score = Scale

----------------------------------------------------------------------------
(* normalizeString on every short text *)

MaxNormLen == 3      \* longest text handed to normalizeString

NormAlphabet == {"a", "A", " ", "-", "E_acute"}

NormTexts == {Str(s) : s \in SeqUpTo(NormAlphabet, MaxNormLen)}

NormInit ==
    /\ guests = <<>>
    /\ SearchIdle
    /\ str1 = <<>>
    /\ str2 = <<>>
    /\ LevIdle
    /\ PageIdle
    /\ LoadIdle

(* a caller runs normalizeString(v) on a text *)
NormalizeText ==
    /\ searchPc = "idle"
    /\ \E v \in NormTexts :
        /\ normInput' = v
        /\ normOutput' = normalizeString(v)
    /\ searchPc' = "normalized"
    /\ UNCHANGED <<guests, query, options, outcome, results, evaluated,
                   matchResult>>
    /\ UNCHANGED levVars
    /\ UNCHANGED pageVars
    /\ UNCHANGED loadVars

(* the caller runs normalizeString again, on the value it returned *)
NormalizeAgain ==
    /\ searchPc = "normalized"
    /\ normInput' = normOutput
    /\ normOutput' = normalizeString(normOutput)
    /\ searchPc' = "renormalized"
    /\ UNCHANGED <<guests, query, options, outcome, results, evaluated,
                   matchResult>>
    /\ UNCHANGED levVars
    /\ UNCHANGED pageVars
    /\ UNCHANGED loadVars

NormNext == NormalizeText \/ NormalizeAgain \/ Discard

NormSpec == NormInit /\ [][NormNext]_vars

(* C16: for every input string the output of normalizeString is
   lower-case, has no leading or trailing whitespace, no run of two or
   more whitespace characters, and none of the characters . , - ' *)
C16_OutputCanonical ==
    (searchPc = "normalized" /\ normInput.t = "string") =>
        LET out == normOutput.s
        IN  /\ ToLowerCase(out) = out
            /\ out # <<>> =>
                   /\ out[1] \notin WhiteSpace
                   /\ out[Len(out)] \notin WhiteSpace
            /\ \A k \in 1..(Len(out) - 1) :
                   ~(out[k] \in WhiteSpace /\ out[k + 1] \in WhiteSpace)
            /\ \A k \in 1..Len(out) : out[k] \notin Punctuation

----------------------------------------------------------------------------
(* Google Sheets loader (utils/googleSheets.js): headers, rows and guests *)

Digits == {"0", "1", "2", "3", "4", "5", "6", "7", "8", "9"}

(* the sheet's cells are strings; a string property that is set *)
Get(r, key) == IF key \in DOMAIN r THEN r[key] ELSE Undefined

(* r[key] = v *)
Set(r, key, v) ==
    [k \in DOMAIN r \cup {key} |-> IF k = key THEN v ELSE r[k]]

(* the headerMap literal: trimmed lower-case header -> field name *)
HeaderNames ==
    {<<<<"f", "i", "r", "s", "t", " ", "n", "a", "m", "e">>, "firstName">>,
     <<<<"f", "i", "r", "s", "t", "n", "a", "m", "e">>, "firstName">>,
     <<<<"f", "i", "r", "s", "t">>, "firstName">>,
     <<<<"l", "a", "s", "t", " ", "n", "a", "m", "e">>, "lastName">>,
     <<<<"l", "a", "s", "t", "n", "a", "m", "e">>, "lastName">>,
     <<<<"l", "a", "s", "t">>, "lastName">>,
     <<<<"f", "u", "l", "l", " ", "n", "a", "m", "e">>, "fullName">>,
     <<<<"f", "u", "l", "l", "n", "a", "m", "e">>, "fullName">>,
     <<<<"n", "a", "m", "e">>, "fullName">>,
     <<<<"t", "a", "b", "l", "e">>, "table">>,
     <<<<"t", "a", "b", "l", "e", " ", "n", "u", "m", "b", "e", "r">>, "table">>,
     <<<<"t", "a", "b", "l", "e", " ", "#">>, "table">>,
     <<<<"g", "u", "e", "s", "t", "s">>, "guests">>,
     <<<<"g", "u", "e", "s", "t", " ", "c", "o", "u", "n", "t">>, "guests">>,
     <<<<"p", "a", "r", "t", "y", " ", "s", "i", "z", "e">>, "guests">>}

(* the property name a header outside headerMap becomes: the header
   without its whitespace *)
OwnKey(s) ==
    CASE s = <<"n", "o", "t", "e", "s">> -> "notes"
      [] OTHER -> "other"

(* headerMap[trimmed] || trimmed.replace(/\s+/g, '') *)
normalizeHeaderName(header) ==
    IF \E p \in HeaderNames : p[1] = ToLowerCase(Trim(header))
    THEN (CHOOSE p \in HeaderNames : p[1] = ToLowerCase(Trim(header)))[2]
    ELSE OwnKey(RemoveAll(ToLowerCase(Trim(header)), WhiteSpace))

(* Object.keys(guest).forEach: every string field trimmed *)
TrimFields(guest) == [k \in DOMAIN guest |-> Str(Trim(guest[k].s))]

(* fullName from first and last, from first alone, from last alone *)
DeriveFullName(n) ==
    IF Truthy(Get(n, "fullName")) THEN n
    ELSE IF Truthy(Get(n, "firstName")) /\ Truthy(Get(n, "lastName"))
    THEN Set(n, "fullName", JoinNames(n.firstName, n.lastName))
    ELSE IF Truthy(Get(n, "firstName"))
    THEN Set(n, "fullName", n.firstName)
    ELSE IF Truthy(Get(n, "lastName"))
    THEN Set(n, "fullName", n.lastName)
    ELSE n

(* the characters of s before its first whitespace *)
RECURSIVE UntilSpace(_)
UntilSpace(s) ==
    IF s = <<>> \/ Head(s) \in WhiteSpace THEN <<>>
    ELSE <<Head(s)>> \o UntilSpace(Tail(s))

(* split(/\s+/) of a trimmed string, parts 1.. joined with single spaces *)
AfterFirstWord(s) ==
    CollapseSpaces(TrimStart(SubSeq(s, Len(UntilSpace(s)) + 1, Len(s))))

(* firstName / lastName from fullName when the row gave neither *)
SplitFullName(n) ==
    IF Truthy(Get(n, "fullName")) /\ ~Truthy(Get(n, "firstName"))
          /\ ~Truthy(Get(n, "lastName"))
    THEN IF \E i \in 1..Len(n.fullName.s) : n.fullName.s[i] \in WhiteSpace
         THEN Set(Set(n, "firstName", Str(UntilSpace(n.fullName.s))),
                  "lastName", Str(AfterFirstWord(n.fullName.s)))
         ELSE Set(Set(n, "firstName", n.fullName), "lastName", Str(<<>>))
    ELSE n

(* match(/\d+/): the first run of digits of s, or <<>> *)
RECURSIVE WhileDigit(_)
WhileDigit(s) ==
    IF s = <<>> \/ Head(s) \notin Digits THEN <<>>
    ELSE <<Head(s)>> \o WhileDigit(Tail(s))

RECURSIVE FirstDigits(_)
FirstDigits(s) ==
    IF s = <<>> THEN <<>>
    ELSE IF Head(s) \in Digits THEN WhileDigit(s)
    ELSE FirstDigits(Tail(s))

(* the table kept as its number, or as its trimmed text *)
NormalizeTable(n) ==
    IF ~Truthy(Get(n, "table")) THEN n
    ELSE IF FirstDigits(n.table.s) # <<>>
    THEN Set(n, "table", Str(FirstDigits(n.table.s)))
    ELSE Set(n, "table", Str(Trim(n.table.s)))

(* if (!normalized.guests) normalized.guests = '' *)
DefaultGuests(n) ==
    IF Truthy(Get(n, "guests")) THEN n ELSE Set(n, "guests", Str(<<>>))

normalizeGuestData(guest) ==
    DefaultGuests(NormalizeTable(SplitFullName(DeriveFullName(
        TrimFields(guest)))))

(* headers.forEach: guest[header] = row[index] || ''; of two columns
   with one header the later one stays *)
RowToGuest(headers, row) ==
    [key \in {headers[i] : i \in 1..Len(headers)} |->
        LET last == CHOOSE i \in 1..Len(headers) :
                        /\ headers[i] = key
                        /\ \A j \in (i + 1)..Len(headers) : headers[j] # key
        IN  IF last <= Len(row) THEN Str(row[last]) ELSE Str(<<>>)]

(* row.length === 0 || row.every(cell => !cell || cell.trim() === '') *)
EmptyRow(row) == \A i \in 1..Len(row) : Trim(row[i]) = <<>>

(* a row's guest is kept when it has a name and a table *)
KeepGuest(kept, n) ==
    IF ~Truthy(Get(n, "fullName")) \/ ~Truthy(Get(n, "table"))
    THEN kept
    ELSE Append(kept, n)

(* the validity test left out: every non-empty row's guest is kept *)
RECURSIVE ParseRowsKeepAll(_, _, _, _)
ParseRowsKeepAll(headers, values, i, kept) ==
    IF i > Len(values) THEN kept
    ELSE ParseRowsKeepAll(headers, values, i + 1,
             IF EmptyRow(values[i])
             THEN kept
             ELSE Append(kept,
                      normalizeGuestData(RowToGuest(headers, values[i]))))

(* for (let i = 1; i < values.length; i++): the rows after the header *)
RECURSIVE ParseRows(_, _, _, _)
ParseRows(headers, values, i, kept) ==
    IF i > Len(values) THEN kept
    ELSE ParseRows(headers, values, i + 1,
             IF EmptyRow(values[i])
             THEN kept
             ELSE KeepGuest(kept,
                      normalizeGuestData(RowToGuest(headers, values[i]))))

parseSheetData(values) ==
    ParseRows([i \in 1..Len(values[1]) |-> normalizeHeaderName(values[1][i])],
              values, 2, <<>>)

----------------------------------------------------------------------------
(* fetchTableAssignments: errors and their messages.  A message is the     *)
(* sequence of its words; includes() is asked only for whole words.        *)

Error(message) == [name |-> "Error", message |-> message]

ApiKeyNotConfigured == <<"API", "key", "not", "configured">>

SpreadsheetIdNotConfigured == <<"Spreadsheet", "ID", "not", "configured">>

SheetRangeNotConfigured == <<"Sheet", "range", "not", "configured">>

InvalidSpreadsheetOrRange == <<"Invalid", "spreadsheet", "or", "range">>

ApiKeyRestricted == <<"API", "key", "is", "invalid", "or", "restricted">>

InvalidRequest ==
    <<"Invalid", "request", "-", "check", "spreadsheet", "ID", "and",
      "range", "format">>

FailedToFetchData(status) ==
    <<"Failed", "to", "fetch", "data:", "HTTP", status>>

InvalidResponseFormat == <<"Invalid", "API", "response", "format">>

NoDataFound == <<"No", "data", "found", "in", "sheet">>

NetworkErrorMessage ==
    <<"Network", "error", "-", "please", "check", "your", "connection">>

ErrorLoadingGuestData(message) ==
    <<"Error", "loading", "guest", "data:">> \o message

(* the outcomes of fetch(url) and response.json() *)
FetchRejects(message) ==
    [kind |-> "rejected", name |-> "TypeError", message |-> message]

HttpStatus(status) == [kind |-> "http", status |-> status]

JsonRejects ==
    [kind |-> "json", name |-> "SyntaxError",
     message |-> <<"Unexpected", "end", "of", "JSON", "input">>]

NoValues == [kind |-> "novalues"]

SheetValues(values) == [kind |-> "values", values |-> values]

(* what the try block throws or returns, before the catch *)
TryFetch(f) ==
    CASE f.kind = "rejected" ->
             [ok |-> FALSE,
              error |-> [name |-> f.name, message |-> f.message]]
      [] f.kind = "json" ->
             [ok |-> FALSE,
              error |-> [name |-> f.name, message |-> f.message]]
      [] f.kind = "http" ->
             [ok |-> FALSE,
              error |-> Error(CASE f.status = "404" ->
                                       InvalidSpreadsheetOrRange
                                [] f.status = "403" -> ApiKeyRestricted
                                [] f.status = "400" -> InvalidRequest
                                [] OTHER -> FailedToFetchData(f.status))]
      [] f.kind = "novalues" ->
             [ok |-> FALSE, error |-> Error(InvalidResponseFormat)]
      [] f.kind = "values" /\ Len(f.values) = 0 ->
             [ok |-> FALSE, error |-> Error(NoDataFound)]
      [] OTHER -> [ok |-> TRUE, guests |-> parseSheetData(f.values)]

(* the catch block: the error thrown on *)
Catch(error) ==
    IF \/ Includes(error.message, <<"API", "key">>)
       \/ Includes(error.message, <<"spreadsheet">>)
       \/ Includes(error.message, <<"Failed", "to", "fetch">>)
       \/ Includes(error.message, <<"Invalid">>)
       \/ Includes(error.message, <<"No", "data">>)
    THEN error
    ELSE IF error.name = "TypeError" /\ Includes(error.message, <<"fetch">>)
    THEN Error(NetworkErrorMessage)
    ELSE Error(ErrorLoadingGuestData(error.message))

(* the try / catch around the request *)
Request(attempt) ==
    IF attempt.ok THEN attempt
    ELSE [ok |-> FALSE, error |-> Catch(attempt.error)]

(* !v || v.trim() === '' *)
NotConfigured(v) == ~Truthy(v) \/ Trim(v.s) = <<>>

(* fetchTableAssignments, given what fetch does: the guests it resolves
   to, or the error it rejects with *)
fetchTableAssignments(id, range, key, f) ==
    IF NotConfigured(key)
    THEN [ok |-> FALSE, error |-> Error(ApiKeyNotConfigured)]
    ELSE IF NotConfigured(id)
    THEN [ok |-> FALSE, error |-> Error(SpreadsheetIdNotConfigured)]
    ELSE IF NotConfigured(range)
    THEN [ok |-> FALSE, error |-> Error(SheetRangeNotConfigured)]
    ELSE Request(TryFetch(f))

----------------------------------------------------------------------------
(* TableLookup: loading the guest list *)

MsgNotConfigured ==
    "Table lookup is not configured. Please contact the wedding organizers."

MsgConfigurationMissing ==
    "Guest list configuration is missing. Please contact the wedding organizers."

MsgTryAgainLater == "Unable to load guest list. Please try again later."

MsgConnection ==
    "Unable to load guest list. Please check your connection and try again."

MsgNotFound == "Guest list not found. Please contact the wedding organizers."

MsgEmpty ==
    "Guest list is currently empty. Please contact the wedding organizers."

(* the catch block of loadGuestData *)
userFriendlyMessage(message) ==
    IF Includes(message, <<"API", "key">>) THEN MsgNotConfigured
    ELSE IF Includes(message, <<"Network", "error">>) THEN MsgConnection
    ELSE IF Includes(message, <<"Invalid", "spreadsheet">>) THEN MsgNotFound
    ELSE IF Includes(message, <<"No", "data">>) THEN MsgEmpty
    ELSE MsgTryAgainLater

(* what the page is configured with: the environment's API key, the
   spreadsheet id (prop or environment) and the sheetRange prop *)
ApiKeys == {Undefined, Str(<<>>), Str(<<" ">>), Str(<<"k">>)}

SpreadsheetIds == {Undefined, Str(<<>>), Str(<<" ">>), Str(<<"s">>)}

SheetRanges == {Str(<<"G", "!", "A", ":", "E">>), Str(<<>>)}

MaxRows == 2         \* most data rows of a sheet

Cells == {<<>>, <<" ">>, <<"A", "l">>, <<"A", "l", " ", "B">>,
          <<"T", " ", "5">>}

NameTableHeaders == <<<<"N", "a", "m", "e">>, <<"T", "a", "b", "l", "e">>>>

NameNotesHeaders ==
    <<<<" ", "n", "a", "m", "e">>, <<"N", "o", "t", "e", "s">>>>

FirstLastTableHeaders ==
    <<<<"F", "i", "r", "s", "t", " ", "N", "a", "m", "e">>,
      <<"L", "a", "s", "t", " ", "N", "a", "m", "e">>,
      <<"T", "a", "b", "l", "e", " ", "#">>>>

(* rows of a sheet with first name, last name and table columns *)
WideRows ==
    {<<>>,
     <<<<" ">>, <<" ">>, <<" ">>>>,
     <<<<"A", "l">>, <<"A", "l", " ", "B">>, <<"T", " ", "5">>>>,
     <<<<" ", "A", "l">>, <<>>, <<"H">>>>,
     <<<<>>, <<"B">>, <<"5">>>>,
     <<<<>>, <<" ">>, <<"T", " ", "5">>>>,
     <<<<"A", "l">>, <<"B">>>>,
     <<<<>>, <<>>, <<"5">>>>}

(* every row under the name and table columns, chosen rows elsewhere *)
RowsUnder(headers) ==
    IF headers = NameTableHeaders
    THEN SeqUpTo(Cells, Len(headers))
    ELSE WideRows

SheetLayouts ==
    {NameTableHeaders, NameNotesHeaders, FirstLastTableHeaders}

(* data.values: the header row and at most MaxRows data rows *)
SheetsUnder(headers) ==
    {<<headers>> \o rows : rows \in SeqUpTo(RowsUnder(headers), MaxRows)}

(* messages of the TypeError a failed fetch rejects with, by browser *)
BrowserMessages ==
    {<<"Failed", "to", "fetch">>,
     <<"NetworkError", "when", "attempting", "to", "fetch", "resource.">>,
     <<"Load", "failed">>}

(* the requests that end without rows: fetch or response.json() rejects,
   an HTTP error status, a body without values, a sheet without rows *)
FetchFailures ==
    {FetchRejects(m) : m \in BrowserMessages}
    \cup {HttpStatus(s) : s \in {"404", "403", "400", "500"}}
    \cup {JsonRejects, NoValues, SheetValues(<<>>)}

LoadInit ==
    /\ apiKey \in ApiKeys
    /\ sheetId \in SpreadsheetIds
    /\ sheetRange \in SheetRanges
    /\ loadingState = "idle"
    /\ errorMessage = NoMessage
    /\ fetched = NoFetch
    /\ guests = <<>>
    /\ SearchIdle
    /\ str1 = <<>>
    /\ str2 = <<>>
    /\ LevIdle
    /\ PageIdle

(* loadGuestData up to its await: the configuration is validated *)
BeginLoad ==
    /\ IF ~Truthy(apiKey)
       THEN /\ errorMessage' = MsgNotConfigured
            /\ loadingState' = "error"
       ELSE IF ~Truthy(sheetId)
       THEN /\ errorMessage' = MsgConfigurationMissing
            /\ loadingState' = "error"
       ELSE /\ loadingState' = "loading"
            /\ errorMessage' = NoMessage
    /\ fetched' = NoFetch
    /\ UNCHANGED <<apiKey, sheetId, sheetRange>>
    /\ UNCHANGED searchVars
    /\ UNCHANGED levVars
    /\ UNCHANGED pageVars

(* the effect that runs loadGuestData when the page mounts *)
Mount ==
    /\ loadingState = "idle"
    /\ BeginLoad

(* the Retry button of the error view *)
Retry ==
    /\ loadingState = "error"
    /\ BeginLoad

(* the state after fetchTableAssignments resolved or rejected with r *)
Settled(f, r) ==
    /\ fetched' = IF NotConfigured(apiKey) \/ NotConfigured(sheetId)
                     \/ NotConfigured(sheetRange)
                  THEN NoFetch
                  ELSE f
    /\ IF r.ok
       THEN /\ guests' = r.guests
            /\ loadingState' = "success"
            /\ UNCHANGED errorMessage
       ELSE /\ errorMessage' = userFriendlyMessage(r.error.message)
            /\ loadingState' = "error"
            /\ UNCHANGED guests

(* loadGuestData after its await, the request having done f *)
Respond(f) ==
    Settled(f, fetchTableAssignments(sheetId, sheetRange, apiKey, f))

(* the awaited fetchTableAssignments call of loadGuestData settles *)
FetchSettles ==
    /\ loadingState = "loading"
    /\ \/ \E f \in FetchFailures : Respond(f)
       \/ \E headers \in SheetLayouts :
              \E values \in SheetsUnder(headers) :
                  Respond(SheetValues(values))
    /\ UNCHANGED <<apiKey, sheetId, sheetRange>>
    /\ UNCHANGED <<searchPc, query, options, outcome, results, evaluated,
                   normInput, normOutput, matchResult>>
    /\ UNCHANGED levVars
    /\ UNCHANGED pageVars

LoadNext == Mount \/ Retry \/ FetchSettles

LoadSpec == LoadInit /\ [][LoadNext]_vars

----------------------------------------------------------------------------
(* Claims about the loader *)

(* the trimmed cell of row r under the column of a field, <<>> without *)
CellUnder(values, r, field) ==
    LET cols == {i \in 1..Len(values[1]) :
                    /\ normalizeHeaderName(values[1][i]) = field
                    /\ i <= Len(values[r])
                    /\ Trim(values[r][i]) # <<>>}
    IN  IF cols = {} THEN <<>> ELSE Trim(values[r][CHOOSE i \in cols : TRUE])

(* row r has a name, given or derivable, and a table *)
ValidRow(values, r) ==
    /\ \E field \in NameFields : CellUnder(values, r, field) # <<>>
    /\ CellUnder(values, r, "table") # <<>>

ValidRows(values) ==
    SelectSeq([i \in 1..(Len(values) - 1) |-> i + 1],
              LAMBDA r : ValidRow(values, r))

(* the full name of row r: the sheet's, or first and / or last name *)
ExpectedName(values, r) ==
    LET full == CellUnder(values, r, "fullName")
        first == CellUnder(values, r, "firstName")
        last == CellUnder(values, r, "lastName")
    IN  IF full # <<>> THEN full
        ELSE IF first # <<>> /\ last # <<>> THEN first \o <<" ">> \o last
        ELSE IF first # <<>> THEN first
        ELSE last

(* C18: every guest record the loader hands over has a non-empty fullName,
   the sheet's or one derived from first and / or last name, and a
   non-empty table; the records are those of the rows that have a name and
   a table, in the sheet's order, none of them dropped. *)
C18_LoadedGuestsValid ==
    loadingState = "success" =>
        /\ \A k \in 1..Len(guests) :
               /\ Get(guests[k], "fullName").t = "string"
               /\ Trim(Get(guests[k], "fullName").s) # <<>>
               /\ Get(guests[k], "table").t = "string"
               /\ Trim(Get(guests[k], "table").s) # <<>>
        /\ Len(guests) = Len(ValidRows(fetched.values))
        /\ \A k \in 1..Len(guests) :
               guests[k].fullName.s
                   = ExpectedName(fetched.values,
                                  ValidRows(fetched.values)[k])

C18_Witness ==
    /\ loadingState = "success"
    /\ fetched.values[1] = FirstLastTableHeaders
    /\ Len(fetched.values) = 3
    /\ ValidRows(fetched.values) = <<2>>
    /\ CellUnder(fetched.values, 3, "table") = <<>>
    /\ Len(guests) = 1
    /\ guests[1].fullName = JoinNames(guests[1].firstName, guests[1].lastName)
    /\ guests[1].table = Str(<<"5">>)

(* C19: a missing API key, a missing spreadsheet id, a fetch rejected
   with a TypeError whatever its message, an HTTP 404 and a sheet without
   data each end in loadingState = 'error' with a message of their own,
   none of them the "Please try again later" fallback. *)
C19_DistinctFailureMessages ==
    /\ Cardinality({MsgNotConfigured, MsgConfigurationMissing, MsgConnection,
                    MsgNotFound, MsgEmpty, MsgTryAgainLater}) = 6
    /\ loadingState \in {"error", "success"} =>
           /\ ~Truthy(apiKey) =>
                  loadingState = "error" /\ errorMessage = MsgNotConfigured
           /\ (Truthy(apiKey) /\ ~Truthy(sheetId)) =>
                  /\ loadingState = "error"
                  /\ errorMessage = MsgConfigurationMissing
           /\ fetched.kind = "rejected" =>
                  loadingState = "error" /\ errorMessage = MsgConnection
           /\ fetched = HttpStatus("404") =>
                  loadingState = "error" /\ errorMessage = MsgNotFound
           /\ fetched = SheetValues(<<>>) =>
                  loadingState = "error" /\ errorMessage = MsgEmpty

----------------------------------------------------------------------------
(* matchGuest called on one guest, as the forEach of fuzzySearchGuests
   calls it: with the normalized query, the searchFields and the
   maxDistance of the search *)

MaxMatchLen == 3     \* longest typed query of the exhaustive matchGuest calls

(* guests with all three names, with first and last name only, with
   fullName only, with one-letter names, with two names that differ, and
   with no name at all *)
MatchPool ==
    {Guest(Str(AbName), Str(BabName), Str(AbBabName)),
     Guest(Str(<<"B", "a">>), Str(<<"A", "-", "b">>), Str(<<>>)),
     Guest(Str(<<"A">>), Str(<<"B">>), Str(<<"A", " ", "B">>)),
     Guest(Str(<<"B", "a">>), Undefined, Str(<<"a", "b", "a">>)),
     Guest(Undefined, Undefined, Str(<<"B">>)),
     Guest(Undefined, Undefined, Undefined)}

MatchAlphabet == {"a", "b", " ", "-"}

(* the normalized form of every query of the alphabet that passes the
   blank test of fuzzySearchGuests *)
TypedQueries ==
    {normalizeString(Str(s)).s :
        s \in {t \in SeqUpTo(MatchAlphabet, MaxMatchLen) : Len(Trim(t)) > 0}}

(* the normalized names of a guest: its fields and both concatenations *)
NamesOf(g) ==
    {normalizeString(FieldValue(g, f)).s :
        f \in {"fullName", "firstName", "lastName"}}
    \cup {normalizeString(JoinNames(g.firstName, g.lastName)).s,
          normalizeString(JoinNames(g.lastName, g.firstName)).s}

MatchFields ==
    {DefaultSearchFields, <<"lastName", "firstName">>,
     <<"table", "fullName">>}

MatchDistances == {NumberValue(1), NumberValue(DefaultMaxDistance), NullValue}

MatchInit ==
    /\ \E g \in MatchPool : guests = <<g>>
    /\ SearchIdle
    /\ str1 = <<>>
    /\ str2 = <<>>
    /\ LevIdle
    /\ PageIdle
    /\ LoadIdle

(* matchGuest(normalizedQuery, guest, searchFields, maxDistance) *)
CallMatchGuest ==
    /\ searchPc = "idle"
    /\ \E q \in TypedQueries \cup NamesOf(guests[1]),
          fields \in MatchFields, maxDistance \in MatchDistances :
        /\ query' = Str(q)
        /\ options' = [searchFields |-> fields, maxDistance |-> maxDistance]
        /\ matchResult' = matchGuest(q, guests[1], fields, maxDistance)
    /\ searchPc' = "matched"
    /\ UNCHANGED <<guests, outcome, results, evaluated, normInput,
                   normOutput>>
    /\ UNCHANGED levVars
    /\ UNCHANGED pageVars
    /\ UNCHANGED loadVars

MatchNext == CallMatchGuest \/ Discard

MatchSpec == MatchInit /\ [][MatchNext]_vars

----------------------------------------------------------------------------
(* Claims about matchGuest *)

(* the representations of the matched guest in the order matchGuest
   evaluates them: the searchFields, then firstName + lastName, then
   lastName + firstName; each with the label it is reported under *)
Representations ==
    LET guest == guests[1]
        fields == options.searchFields
        both == Truthy(guest.firstName) /\ Truthy(guest.lastName)
    IN  [i \in 1..(Len(fields) + 2) |->
            IF i <= Len(fields)
            THEN [present |-> Truthy(FieldValue(guest, fields[i])),
                  rep |-> normalizeString(FieldValue(guest, fields[i])).s,
                  label |-> fields[i]]
            ELSE IF i = Len(fields) + 1
            THEN [present |-> both,
                  rep |-> normalizeString(JoinNames(guest.firstName,
                                                    guest.lastName)).s,
                  label |-> "fullName"]
            ELSE [present |-> both,
                  rep |-> normalizeString(JoinNames(guest.lastName,
                                                    guest.firstName)).s,
                  label |-> "fullName"]]

(* the maxDistance of the call, null read as no limit *)
MatchLimit ==
    IF options.maxDistance.t = "null" THEN Infinity ELSE options.maxDistance

(* representation i is present and its edit distance to the query is at
   most maxDistance *)
WithinEditDistance(i) ==
    /\ Representations[i].present
    /\ WithinMax(ClassicDistance(query.s, Representations[i].rep),
                 MatchLimit)

(* representation i is present and passes the test matchGuest makes *)
Eligible(i) ==
    /\ Representations[i].present
    /\ WithinMax(levenshteinDistance(query.s, Representations[i].rep),
                 MatchLimit)

(* C21: maxDistance is a hard cutoff: the score of every returned match is
   the boosted score of a representation whose edit distance to the query
   is at most maxDistance; a representation further away contributes
   nothing, also when it starts with or contains the query. *)
C21_MaxDistanceHardCutoff ==
    (searchPc = "matched" /\ matchResult # NoMatch) =>
        \E i \in DOMAIN Representations :
            /\ WithinEditDistance(i)
            /\ matchResult.score
                   = BoostedScore(query.s, Representations[i].rep)

(* the cutoff as matchGuest computes it: with the value levenshteinDistance
   returns in place of the edit distance *)
CutoffByComputedDistance ==
    (searchPc = "matched" /\ matchResult # NoMatch) =>
        \E i \in DOMAIN Representations :
            /\ Eligible(i)
            /\ matchResult.score
                   = BoostedScore(query.s, Representations[i].rep)

(* the scoring rule for one representation: the similarity, raised to 0.9
   when the representation starts with the query, else to 0.85 when it
   contains the query *)
BoostRule(q, rep) ==
    IF StartsWith(rep, q)
    THEN Max2(calculateSimilarity(q, rep), PrefixBoost)
    ELSE IF Includes(rep, q)
    THEN Max2(calculateSimilarity(q, rep), SubstringBoost)
    ELSE calculateSimilarity(q, rep)

(* the largest of a set of scores, 0 for the empty set *)
MaxScore(S) == IF S = {} THEN 0 ELSE CHOOSE m \in S : \A x \in S : x <= m

EligibleForms == {i \in DOMAIN Representations : Eligible(i)}

(* C22: the score matchGuest gives a representation is max(similarity,
   0.9) if it starts with the query, max(similarity, 0.85) if it contains
   the query without starting with it, and the similarity otherwise, for
   simple fields and both concatenated forms alike; a boost never lowers a
   score. *)
C22_BoostsAreFloors ==
    searchPc = "matched" =>
        /\ matchResult.score
               = MaxScore({BoostRule(query.s, Representations[i].rep) :
                              i \in EligibleForms})
        /\ \A i \in EligibleForms :
               matchResult.score
                   >= calculateSimilarity(query.s, Representations[i].rep)

C22_Witness ==
    /\ searchPc = "matched"
    /\ query = Str(<<"b">>)
    /\ guests[1].fullName = Str(<<"a", "b", "a">>)
    /\ options.searchFields = <<"table", "fullName">>
    /\ calculateSimilarity(<<"b">>, <<"a", "b", "a">>) = Scale \div 3
    /\ matchResult.score = SubstringBoost
    /\ matchResult.matchedField = "fullName"

(* the best score of the eligible representations and the first
   representation, in evaluation order, that has it *)
BestBoosted ==
    MaxScore({BoostedScore(query.s, Representations[i].rep) :
                 i \in EligibleForms})

FirstBest ==
    CHOOSE i \in EligibleForms :
        /\ BoostedScore(query.s, Representations[i].rep) = BestBoosted
        /\ \A j \in EligibleForms :
               BoostedScore(query.s, Representations[j].rep) = BestBoosted
                   => i <= j

(* C23: matchGuest returns the maximum boosted score over the eligible
   representations, and on equal scores the representation evaluated first
   wins: the searchFields in order, then firstName + lastName, then
   lastName + firstName. *)
C23_FirstBestWins ==
    (searchPc = "matched" /\ matchResult # NoMatch) =>
        /\ matchResult.score = BestBoosted
        /\ matchResult.matchedField = Representations[FirstBest].label

C23_Witness ==
    /\ searchPc = "matched"
    /\ query = Str(<<"a", "a">>)
    /\ options.searchFields = <<"lastName", "firstName">>
    /\ guests[1].firstName = Str(<<"B", "a">>)
    /\ guests[1].lastName = Str(<<"A", "-", "b">>)
    /\ BoostedScore(<<"a", "a">>, <<"b", "a">>)
           = BoostedScore(<<"a", "a">>, <<"a", "b">>)
    /\ matchResult.score = Scale \div 2
    /\ matchResult.matchedField = "lastName"

(* C24, as stated: matchGuest returns none exactly when every
   representation of the guest is absent or excluded by the maxDistance
   cutoff; with one representation present and not excluded a MatchResult
   is returned. *)
C24_NoneIffNoneEligible ==
    searchPc = "matched" => (matchResult = NoMatch <=> EligibleForms = {})

(* C24, amended: matchGuest returns none exactly when no representation
   that is present and passes the cutoff has a boosted score above 0; a
   representation that passes the cutoff with similarity 0 and no boost
   gives none. *)
C24_NoneIffNoPositiveScore ==
    searchPc = "matched" =>
        /\ matchResult = NoMatch <=>
               \A i \in EligibleForms :
                   BoostedScore(query.s, Representations[i].rep) = 0
        /\ matchResult # NoMatch => matchResult.score > 0

C24_Witness ==
    /\ searchPc = "matched"
    /\ query = Str(<<"a">>)
    /\ guests[1].fullName = Str(<<"B">>)
    /\ options.searchFields = DefaultSearchFields
    /\ EligibleForms = {1}
    /\ levenshteinDistance(<<"a">>, <<"b">>) = 1
    /\ matchResult = NoMatch

(* C25: the distance of a MatchResult is the distance between the
   normalized query and the representation that won, the concatenated
   forms included; so it is at most maxDistance, and 0 when the score
   is 1. *)
C25_DistanceOfWinner ==
    (searchPc = "matched" /\ matchResult # NoMatch) =>
        /\ matchResult.distance
               = levenshteinDistance(query.s, Representations[FirstBest].rep)
        /\ WithinMax(matchResult.distance, MatchLimit)
        /\ matchResult.score = Scale => matchResult.distance = 0

----------------------------------------------------------------------------
(* C28: normalizeString is idempotent: applied to the value it returned
   for a string, it returns that value again. *)
C28_NormalizeIdempotent ==
    searchPc = "renormalized" => normOutput = normInput

----------------------------------------------------------------------------
(* The shared scroll lock (utils/scrollLock.js) and the two components that
   use it: the Header's mobile menu and the gallery's Lightbox *)

LockIds == {"lightbox", "header-menu", "modal"}

(* acquireLock without the test for a lock already held *)
AcquireLockUnchecked(lockId) ==
    /\ locks' = locks \cup {lockId}
    /\ lockCount' = lockCount + 1
    /\ noScroll' = (lockCount + 1 = 1 \/ noScroll)
    /\ lastCall' = [op |-> "acquire", id |-> lockId, warned |-> FALSE]

(* acquireLock(lockId) *)
AcquireLock(lockId) ==
    IF lockId \in locks
    THEN /\ lastCall' = [op |-> "acquire", id |-> lockId, warned |-> TRUE]
         /\ UNCHANGED <<locks, lockCount, noScroll>>
    ELSE /\ locks' = locks \cup {lockId}
         /\ lockCount' = lockCount + 1
         /\ noScroll' = (lockCount + 1 = 1 \/ noScroll)
         /\ lastCall' = [op |-> "acquire", id |-> lockId, warned |-> FALSE]

(* releaseLock(lockId); the reset of a negative count included *)
ReleaseLock(lockId) ==
    IF lockId \notin locks
    THEN /\ lastCall' = [op |-> "release", id |-> lockId, warned |-> TRUE]
         /\ UNCHANGED <<locks, lockCount, noScroll>>
    ELSE /\ locks' = IF lockCount - 1 < 0 THEN {} ELSE locks \ {lockId}
         /\ lockCount' = IF lockCount - 1 < 0 THEN 0 ELSE lockCount - 1
         /\ noScroll' = (lockCount - 1 > 0 /\ noScroll)
         /\ lastCall' = [op |-> "release", id |-> lockId, warned |-> FALSE]

LockInit ==
    /\ LockIdle
    /\ LookupIdle
    /\ guests = <<>>
    /\ SearchIdle
    /\ str1 = <<>>
    /\ str2 = <<>>
    /\ LevIdle
    /\ LoadIdle

(* what a scroll-lock step leaves alone *)
LockFrame ==
    /\ UNCHANGED <<str1, str2, levPc, distance, similarity>>
    /\ UNCHANGED searchVars
    /\ UNCHANGED loadVars
    /\ UNCHANGED lookupVars

(* the Header mounts; its menu effect runs with the menu closed *)
MountHeader ==
    /\ ~headerMounted
    /\ headerMounted' = TRUE
    /\ ReleaseLock("header-menu")
    /\ UNCHANGED <<isMenuOpen, isLightboxOpen>>
    /\ LockFrame

(* the menu button: setIsMenuOpen(!isMenuOpen), then the menu effect *)
ToggleMenu ==
    /\ headerMounted
    /\ isMenuOpen' = ~isMenuOpen
    /\ IF ~isMenuOpen
       THEN AcquireLock("header-menu")
       ELSE ReleaseLock("header-menu")
    /\ UNCHANGED <<headerMounted, isLightboxOpen>>
    /\ LockFrame

(* a photo is opened: the Lightbox mounts and its effect runs *)
OpenLightbox ==
    /\ ~isLightboxOpen
    /\ isLightboxOpen' = TRUE
    /\ AcquireLock("lightbox")
    /\ UNCHANGED <<headerMounted, isMenuOpen>>
    /\ LockFrame

(* the Lightbox closes: the cleanup of its effect runs *)
CloseLightbox ==
    /\ isLightboxOpen
    /\ isLightboxOpen' = FALSE
    /\ ReleaseLock("lightbox")
    /\ UNCHANGED <<headerMounted, isMenuOpen>>
    /\ LockFrame

(* any other caller acquires or releases a lock *)
CallAcquire ==
    /\ \E lockId \in LockIds : AcquireLock(lockId)
    /\ UNCHANGED <<headerMounted, isMenuOpen, isLightboxOpen>>
    /\ LockFrame

CallRelease ==
    /\ \E lockId \in LockIds : ReleaseLock(lockId)
    /\ UNCHANGED <<headerMounted, isMenuOpen, isLightboxOpen>>
    /\ LockFrame

LockNext ==
    \/ MountHeader
    \/ ToggleMenu
    \/ OpenLightbox
    \/ CloseLightbox
    \/ CallAcquire
    \/ CallRelease

LockSpec == LockInit /\ [][LockNext]_vars

(* lockCount is the number of locks held, and the body carries no-scroll
   exactly when a lock is held *)
LockCountConsistent ==
    /\ lockCount = Cardinality(locks)
    /\ lockCount >= 0
    /\ noScroll <=> locks # {}

(* a call that acquires a lock already held, or releases one not held,
   leaves the lock state as it was *)
RedundantCallChangesNothing ==
    (\/ lastCall'.op = "acquire" /\ lastCall'.id \in locks
     \/ lastCall'.op = "release" /\ lastCall'.id \notin locks)
    => UNCHANGED <<locks, lockCount, noScroll>>

(* C29: after any sequence of acquireLock / releaseLock calls lockCount is
   the number of distinct lock ids held and is never negative, the body
   carries the class no-scroll exactly when at least one lock is held, and
   acquiring an id already held or releasing an id not held changes
   nothing. *)
C29_LockCountMatchesLocks ==
    [](LockCountConsistent) /\ [][RedundantCallChangesNothing]_vars

C29_Witness ==
    /\ locks = {"lightbox", "header-menu"}
    /\ lockCount = 2
    /\ noScroll
    /\ isMenuOpen
    /\ isLightboxOpen
    /\ lastCall = [op |-> "acquire", id |-> "lightbox", warned |-> TRUE]

----------------------------------------------------------------------------
(* TableLookup: the search form, over a loaded guest list *)

DefaultMaxResults == 5

(* what the guest types into the input *)
LookupTexts ==
    {<<>>, <<"a", "l">>, <<"a", "l", " ">>, <<"a", "l", " ", "b">>, <<"b">>,
     <<" ", "b">>, <<"b", "b">>}

(* sheets with two guests who share a first name, with two who share the
   letter B, and with one guest *)
LookupSheets ==
    {<<NameTableHeaders,
       <<<<"A", "l">>, <<"T", " ", "5">>>>,
       <<<<"A", "l", " ", "B">>, <<"T", " ", "5">>>>>>,
     <<NameTableHeaders,
       <<<<"B">>, <<"T", " ", "5">>>>,
       <<<<"A", "l", " ", "B">>, <<"T", " ", "5">>>>>>,
     <<NameTableHeaders,
       <<<<"A", "l", " ", "B">>, <<"T", " ", "5">>>>>>}

LookupFetches ==
    {HttpStatus("500")} \cup {SheetValues(values) : values \in LookupSheets}

LookupInit ==
    /\ apiKey \in ApiKeys
    /\ sheetId \in SpreadsheetIds
    /\ sheetRange \in SheetRanges
    /\ loadingState = "idle"
    /\ errorMessage = NoMessage
    /\ fetched = NoFetch
    /\ guests = <<>>
    /\ SearchIdle
    /\ str1 = <<>>
    /\ str2 = <<>>
    /\ LevIdle
    /\ PageIdle

(* what an event of the search form leaves alone *)
LookupFrame ==
    /\ UNCHANGED <<str1, str2, levPc, distance, similarity>>
    /\ UNCHANGED searchVars
    /\ UNCHANGED loadVars
    /\ UNCHANGED lockVars

(* the awaited request of loadGuestData settles *)
LookupFetchSettles ==
    /\ loadingState = "loading"
    /\ \E f \in LookupFetches : Respond(f)
    /\ UNCHANGED <<apiKey, sheetId, sheetRange>>
    /\ UNCHANGED <<searchPc, query, options, outcome, results, evaluated,
                   normInput, normOutput, matchResult>>
    /\ UNCHANGED <<str1, str2, levPc, distance, similarity>>
    /\ UNCHANGED pageVars

(* the results handleSearch computes for a text *)
SearchResultsFor(text) ==
    fuzzySearchGuests(Str(text), guests,
        [maxDistance |-> NumberValue(3),
         minSimilarity |-> (Scale * 6) \div 10]).results

(* handleSearch that leaves a selected result in place *)
HandleSearchKeepsSelection ==
    /\ Len(Trim(searchQuery)) >= 2
    /\ loadingState = "success"
    /\ searchResults' = ResultsArray(SearchResultsFor(searchQuery))
    /\ hasSearched' = TRUE
    /\ UNCHANGED <<searchQuery, selectedResult>>
    /\ LookupFrame

(* handleSearch: the form is submitted; the guest list is set in the step
   that sets loadingState to success, so the test of loadingState stands
   for both tests of the second guard *)
HandleSearch ==
    /\ Len(Trim(searchQuery)) >= 2
    /\ loadingState = "success"
    /\ selectedResult' = NoSelection
    /\ searchResults' = ResultsArray(SearchResultsFor(searchQuery))
    /\ hasSearched' = TRUE
    /\ UNCHANGED searchQuery
    /\ LookupFrame

(* handleInputChange: the guest edits the input, enabled unless loading *)
HandleInputChange ==
    /\ loadingState # "loading"
    /\ \E text \in LookupTexts \ {searchQuery} : searchQuery' = text
    /\ hasSearched' = FALSE
    /\ searchResults' = NullResults
    /\ UNCHANGED selectedResult
    /\ LookupFrame

(* the results region is rendered *)
ResultsShown ==
    /\ hasSearched
    /\ loadingState = "success"

(* handleClearSearch: the Try Again / Search Again buttons *)
HandleClearSearch ==
    /\ ResultsShown
    /\ ~searchResults.isNull
    /\ searchQuery' = <<>>
    /\ searchResults' = NullResults
    /\ hasSearched' = FALSE
    /\ selectedResult' = NoSelection
    /\ LookupFrame

(* handleSelect: one of the listed matches is clicked *)
HandleSelect ==
    /\ ResultsShown
    /\ ~searchResults.isNull
    /\ Len(searchResults.items) > 1
    /\ \E n \in 1..Min2(Len(searchResults.items), DefaultMaxResults) :
           selectedResult' = searchResults.items[n]
    /\ UNCHANGED <<searchQuery, searchResults, hasSearched>>
    /\ LookupFrame

(* the Back button of the selected result *)
Back ==
    /\ ResultsShown
    /\ selectedResult # NoSelection
    /\ selectedResult' = NoSelection
    /\ UNCHANGED <<searchQuery, searchResults, hasSearched>>
    /\ LookupFrame

LookupNext ==
    \/ Mount
    \/ Retry
    \/ LookupFetchSettles
    \/ HandleInputChange
    \/ HandleSearch
    \/ HandleSelect
    \/ Back
    \/ HandleClearSearch

LookupSpec == LookupInit /\ [][LookupNext]_vars

(* while results are on show they are those of the text in the input *)
ShownResultsCurrent ==
    hasSearched =>
        /\ loadingState = "success"
        /\ ~searchResults.isNull
        /\ Len(Trim(searchQuery)) >= 2
        /\ searchResults.items = SearchResultsFor(searchQuery)
        /\ \/ selectedResult = NoSelection
           \/ \E n \in 1..Len(searchResults.items) :
                  searchResults.items[n] = selectedResult

(* a submit is accepted only with the list loaded, and an edit of the
   input takes the results off show *)
EditResetsSearch ==
    /\ (hasSearched' /\ ~hasSearched) => loadingState = "success"
    /\ searchQuery' # searchQuery =>
           /\ ~hasSearched'
           /\ searchResults' = NullResults

(* C30: after any sequence of load, input-change, submit, select, back and
   clear events, whenever hasSearched is true the list was loaded when the
   form was submitted, searchResults is not null and was computed from the
   text now in the input, whose trimmed length is at least 2, and
   selectedResult is null or one of these results; every edit of the input
   sets hasSearched to false and searchResults to null. *)
C30_ResultsMatchQuery ==
    [](ShownResultsCurrent) /\ [][EditResetsSearch]_vars

C30_Witness ==
    /\ hasSearched
    /\ searchQuery = <<"a", "l">>
    /\ Len(guests) = 2
    /\ Len(searchResults.items) = 2
    /\ selectedResult = searchResults.items[2]
    /\ selectedResult.guest = 2
    /\ selectedResult.matchedField = "firstName"

====
